---- MODULE Spec2Model ----
(***************************************************************************)
(* ingress53: the registrator that reconciles Kubernetes ingresses with    *)
(* the CNAME records of a Route53 zone.                                    *)
(*                                                                         *)
(* Go strings are modelled as sequences of one-character strings, so that  *)
(* strings.Trim, the scope regexp and the "%s." formatting are computed    *)
(* character by character.  The empty Go string is the empty sequence.     *)
(***************************************************************************)
EXTENDS Integers, Sequences, FiniteSets, TLC

----------------------------------------------------------------------------
(* Strings *)

Dot == "."
EmptyString == <<>>

RECURSIVE TrimLeft(_, _)
TrimLeft(s, c) ==
    IF s # <<>> /\ Head(s) = c THEN TrimLeft(Tail(s), c) ELSE s

RECURSIVE TrimRight(_, _)
TrimRight(s, c) ==
    IF s # <<>> /\ s[Len(s)] = c THEN TrimRight(SubSeq(s, 1, Len(s) - 1), c) ELSE s

\* strings.Trim(s, cutset) with a one-character cutset: both ends are stripped.
Trim(s, c) == TrimRight(TrimLeft(s, c), c)

\* fmt.Sprintf("%s.", strings.Trim(h, "."))
Fqdn(h) == Trim(h, Dot) \o <<Dot>>

----------------------------------------------------------------------------
(* Configuration: the values the model runs the program with *)

\* route53.ChangeActionUpsert / route53.ChangeActionDelete
ChangeActionUpsert == "UPSERT"
ChangeActionDelete == "DELETE"

\* registratorOptions.TargetLabelName
TargetLabelName == "tier"

\* the two targets of registratorOptions.Targets
Public  == <<"p", "u", "b">>
Private == <<"p", "r", "v">>

\* a value of the target label that is none of the targets
Other   == <<"o", "t", "h">>

\* registratorOptions.Targets, in configured order
Targets == <<Public, Private>>

\* dnsZone.Domain(): the zone apex "e.c."
Domain == <<"e", Dot, "c", Dot>>

\* hostnames an ingress rule may carry
HostA     == <<"a", Dot, "e", Dot, "c">>            \* a.e.c    one label below the apex
HostB     == <<"b", Dot, "e", Dot, "c">>            \* b.e.c    one label below the apex
HostBDot  == <<"b", Dot, "e", Dot, "c", Dot>>       \* b.e.c.   the same, fully qualified
HostApex  == <<"e", Dot, "c">>                      \* e.c      the apex itself
HostDeep  == <<"w", Dot, "a", Dot, "e", Dot, "c">>  \* w.a.e.c  two labels below the apex
HostAlien == <<"a", Dot, "e", Dot, "o">>            \* a.e.o    another zone
HostNoDot == <<"a", Dot, "e", "x", "c">>            \* a.exc    another zone, one character off

----------------------------------------------------------------------------
(* Pure helpers of the registrator *)

\* ingress.Labels[key]: a Go map lookup, the empty string when the key is absent
LabelValue(labels, key) == IF key \in DOMAIN labels THEN labels[key] ELSE EmptyString

\* labels.Parse(TargetLabelName + "=" + target).Matches(labels.Set(ingress.Labels))
SelectorMatches(target, labels) ==
    TargetLabelName \in DOMAIN labels /\ labels[TargetLabelName] = target

\* newRegistratorWithOptions: one selector per target, in the order of Targets
sats == [i \in 1..Len(Targets) |-> [Selector |-> Targets[i], Target |-> Targets[i]]]

RECURSIVE FirstMatch(_, _)
FirstMatch(ss, labels) ==
    IF ss = <<>> THEN EmptyString
    ELSE IF SelectorMatches(Head(ss).Selector, labels) THEN Head(ss).Target
    ELSE FirstMatch(Tail(ss), labels)

\* a target selector that falls back to the last target when no selector matches
getTargetForIngressDefaulting(ingress) ==
    LET t == FirstMatch(sats, ingress.Labels)
    IN  IF t = EmptyString THEN sats[Len(sats)].Target ELSE t

getTargetForIngress(ingress) == FirstMatch(sats, ingress.Labels)

RECURSIVE diffStringSlices(_, _)
diffStringSlices(a, b) ==
    IF a = <<>> THEN <<>>
    ELSE IF \E j \in 1..Len(b) : b[j] = Head(a)
         THEN diffStringSlices(Tail(a), b)
         ELSE <<Head(a)>> \o diffStringSlices(Tail(a), b)

stringInSlice(s, slice) == \E i \in 1..Len(slice) : slice[i] = s

recordHostnameInSlice(h, records) == \E i \in 1..Len(records) : records[i].Hostname = h

recordTargetsAllMatch(target, records) ==
    \A i \in 1..Len(records) : records[i].Target = target


\* uniqueRecords, one iteration per index i: the records kept so far and the
\* hostnames rejected so far
RECURSIVE uniqueRecordsLoop(_, _, _, _)
uniqueRecordsLoop(records, i, unique, rejected) ==
    IF i > Len(records) THEN [Unique |-> unique, Rejected |-> rejected]
    ELSE LET r1 == records[i]
             idx == SelectSeq([j \in 1..Len(records) |-> j],
                              LAMBDA j : j # i /\ records[j].Hostname = r1.Hostname)
             duplicates == [k \in 1..Len(idx) |-> records[idx[k]]]
         IN  IF stringInSlice(r1.Hostname, rejected) \/ recordHostnameInSlice(r1.Hostname, unique)
             THEN uniqueRecordsLoop(records, i + 1, unique, rejected)
             ELSE IF recordTargetsAllMatch(r1.Target, duplicates)
                  THEN uniqueRecordsLoop(records, i + 1, Append(unique, r1), rejected)
                  ELSE uniqueRecordsLoop(records, i + 1, unique, Append(rejected, r1.Hostname))

\* a dedup that returns its input
uniqueRecordsKeepAll(records) == [Unique |-> records, Rejected |-> <<>>]

\* uniqueRecords(records): .Unique is the returned slice, .Rejected the local
\* rejectedRecords whose length is added to metricUpdatesRejected
uniqueRecords(records) == uniqueRecordsLoop(records, 1, <<>>, <<>>)

----------------------------------------------------------------------------
(* canHandleRecord: the scope regexp, token by token *)

\* strings.Replace(zone, ".", "\\.", -1): the tokens of the quoted zone
QuoteDots(zone) == [i \in 1..Len(zone) |-> IF zone[i] = Dot THEN "\\." ELSE zone[i]]

\* fmt.Sprintf("^[^.]+\\.%s$", quoted)
ScopePattern(zone) == <<"^", "[^.]+", "\\.">> \o QuoteDots(zone) \o <<"$">>

\* regexp matching of the tokens p at the start of s
RECURSIVE MatchHere(_, _)
MatchHere(p, s) ==
    IF p = <<>> THEN TRUE
    ELSE LET tok == Head(p)
         IN  CASE tok = "$"     -> s = <<>> /\ MatchHere(Tail(p), s)
               [] tok = "[^.]+" -> \E k \in 1..Len(s) :
                                      /\ \A i \in 1..k : s[i] # Dot
                                      /\ MatchHere(Tail(p), SubSeq(s, k + 1, Len(s)))
               [] tok = "\\."   -> s # <<>> /\ Head(s) = Dot /\ MatchHere(Tail(p), Tail(s))
               [] tok = "."     -> s # <<>> /\ MatchHere(Tail(p), Tail(s))
               [] OTHER         -> s # <<>> /\ Head(s) = tok /\ MatchHere(Tail(p), Tail(s))

\* regexp.MatchString(pattern, s) for a pattern that starts with "^"
MatchString(p, s) == Head(p) = "^" /\ MatchHere(Tail(p), s)

\* a scope check that accepts any number of labels below the apex
canHandleRecordAnyDepth(record) ==
    LET zone == Trim(Domain, Dot)
        rec  == Trim(record, Dot)
    IN  /\ Len(rec) > Len(zone) + 1
        /\ SubSeq(rec, Len(rec) - Len(zone), Len(rec)) = <<Dot>> \o zone

canHandleRecord(record) ==
    LET zone == Trim(Domain, Dot)
        rec  == Trim(record, Dot)
    IN  MatchString(ScopePattern(zone), rec)

----------------------------------------------------------------------------
(* resolveCname *)

\* error values
ErrNil          == "nil"
errDNSEmptyAnswer == "EMPTY_ANSWER"
ErrExchange     == "exchange error"
ErrTimeout      == "i/o timeout"

\* dnsZone.ListNameservers()
Nameservers == <<"ns1", "ns2">>

\* what dnsClient.Exchange returns from one nameserver
ExchangeError     == [Err |-> ErrExchange, Answer |-> <<>>]
ExchangeAnswer(a) == [Err |-> ErrNil, Answer |-> a]

\* resolveCname's loop over the nameservers; exchanges[i] is the outcome of
\* dnsClient.Exchange(&m, nameservers[i]); Queried counts the calls of Exchange
RECURSIVE resolveLoop(_, _, _, _)
resolveLoop(exchanges, i, retTarget, retError) ==
    IF i > Len(exchanges)
    THEN [Target |-> retTarget, Err |-> retError, Queried |-> Len(exchanges)]
    ELSE LET r == exchanges[i]
         IN  IF r.Err # ErrNil THEN resolveLoop(exchanges, i + 1, retTarget, r.Err)
             ELSE IF Len(r.Answer) = 0
                  THEN resolveLoop(exchanges, i + 1, retTarget, errDNSEmptyAnswer)
                  ELSE [Target |-> r.Answer[1], Err |-> ErrNil, Queried |-> i]

\* a resolver that gives up at a first server that fails
resolveCnameStoppingAtError(exchanges) ==
    IF exchanges # <<>> /\ exchanges[1].Err # ErrNil
    THEN [Target |-> EmptyString, Err |-> exchanges[1].Err, Queried |-> 1]
    ELSE resolveLoop(exchanges, 1, EmptyString, ErrNil)

resolveCname(exchanges) == resolveLoop(exchanges, 1, EmptyString, ErrNil)


----------------------------------------------------------------------------
(* The ingress watcher's side: hostnames, ownership, the handler *)

\* getHostnamesFromIngress: the rule hosts, de-duplicated, first occurrences kept
getHostnames(rules) ==
    LET first == SelectSeq([k \in 1..Len(rules) |-> k],
                           LAMBDA k : \A j \in 1..(k - 1) : rules[j] # rules[k])
    IN  [i \in 1..Len(first) |-> rules[first[i]]]

getHostnamesFromIngress(ingress) == getHostnames(ingress.Rules)

\* ingressWatcher.HostnameOwners(hostname): the live ingresses that list it
HostnameOwners(snapshot, hostname) ==
    {i \in DOMAIN snapshot : stringInSlice(hostname, getHostnamesFromIngress(snapshot[i]))}

\* the changes queueUpdates(action, hostnames, target) sends, in order
queueUpdates(action, hostnames, target) ==
    [k \in 1..Len(hostnames) |->
        [Action |-> action, Record |-> [Hostname |-> hostnames[k], Target |-> target]]]

\* handler, case watch.Added: the changes it sends
handlerAdded(newIngress) ==
    LET hostnames == getHostnamesFromIngress(newIngress)
        target    == getTargetForIngress(newIngress)
    IN  IF target = EmptyString THEN <<>>
        ELSE IF Len(hostnames) = 0 THEN <<>>
        ELSE queueUpdates(ChangeActionUpsert, hostnames, target)

\* a guard that recognises only an unchanged ingress
noopResyncIdentical(oldIngress, newIngress) == oldIngress = newIngress

\* the guard of case watch.Modified that ends the handler early
noopResync(oldIngress, newIngress) ==
    /\ Len(diffStringSlices(getHostnamesFromIngress(oldIngress),
                            getHostnamesFromIngress(newIngress))) = 0
    /\ LabelValue(newIngress.Labels, TargetLabelName)
         = LabelValue(oldIngress.Labels, TargetLabelName)

\* a MODIFIED case that sends the deletions first
handlerModifiedDeletesFirst(oldIngress, newIngress) ==
    LET newHostnames  == getHostnamesFromIngress(newIngress)
        oldHostnames  == getHostnamesFromIngress(oldIngress)
        diffHostnames == diffStringSlices(oldHostnames, newHostnames)
        upserts == IF getTargetForIngress(newIngress) = EmptyString THEN <<>>
                   ELSE queueUpdates(ChangeActionUpsert, newHostnames,
                                     getTargetForIngress(newIngress))
        deletes == IF getTargetForIngress(oldIngress) = EmptyString THEN <<>>
                   ELSE queueUpdates(ChangeActionDelete, diffHostnames,
                                     getTargetForIngress(oldIngress))
    IN  IF noopResync(oldIngress, newIngress) THEN <<>> ELSE deletes \o upserts

\* handler, case watch.Modified
handlerModified(oldIngress, newIngress) ==
    LET newHostnames  == getHostnamesFromIngress(newIngress)
        newTarget     == getTargetForIngress(newIngress)
        oldHostnames  == getHostnamesFromIngress(oldIngress)
        oldTarget     == getTargetForIngress(oldIngress)
        diffHostnames == diffStringSlices(oldHostnames, newHostnames)
        upserts == IF newTarget = EmptyString THEN <<>>
                   ELSE IF Len(newHostnames) = 0 THEN <<>>
                   ELSE queueUpdates(ChangeActionUpsert, newHostnames, newTarget)
        deletes == IF oldTarget = EmptyString THEN <<>>
                   ELSE IF Len(diffHostnames) = 0 THEN <<>>
                   ELSE queueUpdates(ChangeActionDelete, diffHostnames, oldTarget)
    IN  IF noopResync(oldIngress, newIngress) THEN <<>> ELSE upserts \o deletes

\* a DELETED case that does not look at the target
handlerDeletedIgnoringTarget(oldIngress) ==
    queueUpdates(ChangeActionDelete, getHostnamesFromIngress(oldIngress),
                 getTargetForIngress(oldIngress))

\* handler, case watch.Deleted
handlerDeleted(oldIngress) ==
    LET hostnames == getHostnamesFromIngress(oldIngress)
        target    == getTargetForIngress(oldIngress)
    IN  IF target = EmptyString THEN <<>>
        ELSE IF Len(hostnames) = 0 THEN <<>>
        ELSE queueUpdates(ChangeActionDelete, hostnames, target)


----------------------------------------------------------------------------
(* Bounds of the model *)

\* events the watcher delivers in one run
MaxEvents == 3

----------------------------------------------------------------------------
(* The queue between the two tasks *)

\* capacity of updateQueue: make(chan cnameChange, 64)
QueueCap == 64

----------------------------------------------------------------------------
(* State *)

VARIABLES
    live,                   \* ingressWatcher: the live ingresses, by name
    nEvents,                \* events delivered so far
    handlerQ,               \* handler: the changes queueUpdates has still to send
    updateQueue,            \* registrator.updateQueue
    stopped,                \* ingressWatcher.stopChannel is closed
    dryRun,                 \* the dryRun flag
    rpc,                    \* processUpdateQueue: "select", "prune", "done"
    ret,                    \* processUpdateQueue: the buffered changes
    carry,                  \* the change received at an action boundary, appended after the flush
    exiting,                \* the flush in progress is the one of the stop case
    pi,                     \* pruneBatch: index of the next record
    pruned,                 \* pruneBatch: the records kept so far
    resolved,               \* pruneBatch: what was observed for each record so far
    zoneData,               \* the zone: hostname -> target
    metricUpdatesRejected,  \* counter
    metricUpdatesApplied,   \* counter vector by <<hostname, op>>
    lastFlush,              \* the applyBatch that has just returned, as the mutator and the
                            \* log saw it; NoFlush once the loop has gone on
    lookup                  \* a call of resolveCname on its own: the outcomes of Exchange
                            \* and what the call returned

vars == <<live, nEvents, handlerQ, updateQueue, stopped, dryRun, rpc, ret, carry, exiting,
          pi, pruned, resolved, zoneData, metricUpdatesRejected, metricUpdatesApplied,
          lastFlush, lookup>>

\* names of the ingresses
Ids == {"A", "B"}

Label(v) == [k \in {TargetLabelName} |-> v]
NoLabels == [k \in {} |-> EmptyString]

IngPrivA   == [Labels |-> Label(Private), Rules |-> <<HostA>>]
IngPubA    == [Labels |-> Label(Public),  Rules |-> <<HostA>>]
IngPrivAB  == [Labels |-> Label(Private), Rules |-> <<HostA, HostB, HostA>>]
IngNoneB   == [Labels |-> NoLabels,       Rules |-> <<HostB>>]

\* the ingress objects the watcher may deliver
Ingresses == {IngPrivAB, IngPubA, IngNoneB}

EmptyMap == [k \in {} |-> EmptyString]

\* no call of resolveCname on its own
NoLookup == [Exchanges |-> <<>>, Called |-> FALSE, Target |-> EmptyString, Err |-> ErrNil,
             Queried |-> 0]

\* Batch: the changes flushed; Trace: what pruneBatch saw for each; Kept: pruned
\* before uniqueRecords; Sent: pruned as returned; Method: the mutator method called
NoFlush == [Action |-> "none", Batch |-> <<>>, Trace |-> <<>>, Kept |-> <<>>,
            Sent |-> <<>>, Method |-> "none", Called |-> FALSE, Ok |-> FALSE]

Init ==
    /\ live = EmptyMap
    /\ nEvents = 0
    /\ handlerQ = <<>>
    /\ updateQueue = <<>>
    /\ stopped = FALSE
    /\ dryRun = FALSE
    /\ rpc = "select"
    /\ ret = <<>>
    /\ carry = <<>>
    /\ exiting = FALSE
    /\ pi = 1
    /\ pruned = <<>>
    /\ resolved = <<>>
    /\ zoneData = EmptyMap
    /\ metricUpdatesRejected = 0
    /\ metricUpdatesApplied = EmptyMap
    /\ lastFlush = NoFlush
    /\ lookup = NoLookup

----------------------------------------------------------------------------
(* The watcher task: index update, then the handler *)

reconcilerVars == <<rpc, ret, carry, exiting, pi, pruned, resolved, zoneData,
                    metricUpdatesRejected, metricUpdatesApplied, lastFlush, dryRun, lookup>>

CanDeliver == handlerQ = <<>> /\ ~stopped /\ nEvents < MaxEvents

\* ADDED: the index gains the ingress, then handler(Added, nil, new)
WatchAdded(i, new) ==
    /\ CanDeliver
    /\ i \notin DOMAIN live
    /\ live' = [j \in DOMAIN live \cup {i} |-> IF j = i THEN new ELSE live[j]]
    /\ handlerQ' = handlerAdded(new)
    /\ nEvents' = nEvents + 1
    /\ UNCHANGED <<updateQueue, stopped, reconcilerVars>>

\* MODIFIED (a resync when new = old): the index entry is replaced, then
\* handler(Modified, old, new)
WatchModified(i, new) ==
    /\ CanDeliver
    /\ i \in DOMAIN live
    /\ live' = [live EXCEPT ![i] = new]
    /\ handlerQ' = handlerModified(live[i], new)
    /\ nEvents' = nEvents + 1
    /\ UNCHANGED <<updateQueue, stopped, reconcilerVars>>

\* DELETED: the index loses the ingress, then handler(Deleted, old, nil)
WatchDeleted(i) ==
    /\ CanDeliver
    /\ i \in DOMAIN live
    /\ live' = [j \in DOMAIN live \ {i} |-> live[j]]
    /\ handlerQ' = handlerDeleted(live[i])
    /\ nEvents' = nEvents + 1
    /\ UNCHANGED <<updateQueue, stopped, reconcilerVars>>

\* queueUpdates: r.updateQueue <- change, blocking while the queue is full
QueueSend ==
    /\ handlerQ # <<>>
    /\ Len(updateQueue) < QueueCap
    /\ updateQueue' = Append(updateQueue, Head(handlerQ))
    /\ handlerQ' = Tail(handlerQ)
    /\ UNCHANGED <<live, nEvents, stopped, reconcilerVars>>

\* ingressWatcher.Stop(): close(stopChannel)
Stop ==
    /\ ~stopped
    /\ stopped' = TRUE
    /\ UNCHANGED <<live, nEvents, handlerQ, updateQueue, reconcilerVars>>


----------------------------------------------------------------------------
(* The reconciler task: processUpdateQueue, applyBatch, pruneBatch *)

\* a batching rule that never sees an action boundary
ActionBoundaryNever(buffer, t) == FALSE

\* processUpdateQueue: the condition under which the buffer is flushed before t joins it
ActionBoundary(buffer, t) ==
    /\ Len(buffer) > 0
    /\ \/ buffer[1].Action = ChangeActionDelete /\ t.Action # ChangeActionDelete
       \/ buffer[1].Action # ChangeActionDelete /\ t.Action = ChangeActionDelete

\* entering applyBatch(ret): pruneBatch starts at the first record
BeginFlush(next, leave) ==
    /\ rpc' = "prune"
    /\ carry' = next
    /\ exiting' = leave
    /\ pi' = 1
    /\ pruned' = <<>>
    /\ resolved' = <<>>
    /\ UNCHANGED ret

NoFlushNeeded == UNCHANGED <<carry, exiting, pi, pruned, resolved>>

\* a receive that takes the newest change of the queue
ReceiveLast ==
    /\ rpc = "select"
    /\ updateQueue # <<>>
    /\ updateQueue' = SubSeq(updateQueue, 1, Len(updateQueue) - 1)
    /\ LET t == updateQueue[Len(updateQueue)]
       IN  IF ActionBoundary(ret, t)
           THEN BeginFlush(<<t>>, FALSE)
           ELSE /\ ret' = Append(ret, t)
                /\ UNCHANGED rpc
                /\ NoFlushNeeded
    /\ lastFlush' = NoFlush
    /\ UNCHANGED <<live, nEvents, handlerQ, stopped, dryRun, zoneData,
                   metricUpdatesRejected, metricUpdatesApplied, lookup>>

\* case t := <-r.updateQueue
Receive ==
    /\ rpc = "select"
    /\ updateQueue # <<>>
    /\ updateQueue' = Tail(updateQueue)
    /\ LET t == Head(updateQueue)
       IN  IF ActionBoundary(ret, t)
           THEN BeginFlush(<<t>>, FALSE)
           ELSE /\ ret' = Append(ret, t)
                /\ UNCHANGED rpc
                /\ NoFlushNeeded
    /\ lastFlush' = NoFlush
    /\ UNCHANGED <<live, nEvents, handlerQ, stopped, dryRun, zoneData,
                   metricUpdatesRejected, metricUpdatesApplied, lookup>>

\* case <-r.stopChannel
StopCase ==
    /\ rpc = "select"
    /\ stopped
    /\ IF Len(ret) > 0
       THEN BeginFlush(<<>>, TRUE)
       ELSE /\ rpc' = "done"
            /\ UNCHANGED ret
            /\ NoFlushNeeded
    /\ lastFlush' = NoFlush
    /\ UNCHANGED <<live, nEvents, handlerQ, updateQueue, stopped, dryRun, zoneData,
                   metricUpdatesRejected, metricUpdatesApplied, lookup>>

\* a default case that only sleeps
IdleSleeping ==
    /\ rpc = "select"
    /\ updateQueue = <<>>
    /\ ~stopped
    /\ lastFlush' = NoFlush
    /\ UNCHANGED <<live, nEvents, handlerQ, updateQueue, stopped, dryRun, rpc, ret, carry,
                   exiting, pi, pruned, resolved, zoneData, metricUpdatesRejected,
                   metricUpdatesApplied, lookup>>

\* default: neither channel is ready; with an empty buffer the loop only sleeps
Idle ==
    /\ rpc = "select"
    /\ updateQueue = <<>>
    /\ ~stopped
    /\ IF Len(ret) > 0
       THEN BeginFlush(<<>>, FALSE)
       ELSE UNCHANGED <<rpc, ret, carry, exiting, pi, pruned, resolved>>
    /\ lastFlush' = NoFlush
    /\ UNCHANGED <<live, nEvents, handlerQ, updateQueue, stopped, dryRun, zoneData,
                   metricUpdatesRejected, metricUpdatesApplied, lookup>>

\* what the zone's nameservers hold for a name
ZoneAnswer(name) ==
    LET keys == {h \in DOMAIN zoneData : Fqdn(h) = name}
    IN  IF keys = {} THEN ExchangeAnswer(<<>>)
        ELSE ExchangeAnswer(<<zoneData[CHOOSE h \in keys : TRUE] \o <<Dot>>>>)

\* the outcomes of dnsClient.Exchange, one per nameserver, for a query of name:
\*   "flaky"    each nameserver fails or reports the zone's content
\*   "faithful" each nameserver reports the zone's content
Exchanges(mode, name) ==
    LET one == CASE mode = "flaky"    -> {ExchangeError, ZoneAnswer(name)}
                 [] mode = "faithful" -> {ZoneAnswer(name)}
    IN  [1..Len(Nameservers) -> one]

\* an upsert policy that updates even what resolves correctly
keepRecordAlwaysUpsert(action, u, res, owners) ==
    IF action = ChangeActionDelete
    THEN owners = {} /\ res.Err # errDNSEmptyAnswer
    ELSE TRUE

\* a delete policy that trusts only a successful lookup
keepRecordDroppingOnError(action, u, res, owners) ==
    IF action = ChangeActionDelete
    THEN owners = {} /\ res.Err = ErrNil
    ELSE res.Err # ErrNil \/ Trim(res.Target, Dot) # u.Target

\* pruneBatch, switch action: whether the in-scope record u is appended to pruned
keepRecord(action, u, res, owners) ==
    CASE action = ChangeActionDelete ->
            IF Cardinality(owners) > 0 THEN FALSE
            ELSE IF res.Err = ErrNil THEN TRUE
            ELSE IF res.Err # errDNSEmptyAnswer THEN TRUE
            ELSE FALSE
      [] action = ChangeActionUpsert ->
            IF res.Err # ErrNil THEN TRUE
            ELSE IF Trim(res.Target, Dot) # u.Target THEN TRUE
            ELSE FALSE
      [] OTHER -> FALSE

\* pruneBatch: one iteration of the loop over the records
PruneRecord(mode) ==
    /\ rpc = "prune"
    /\ pi <= Len(ret)
    /\ LET action == ret[1].Action
           u      == ret[pi].Record
       IN  IF ~canHandleRecord(u.Hostname)
           THEN /\ metricUpdatesRejected' = metricUpdatesRejected + 1
                /\ resolved' = Append(resolved, [InScope |-> FALSE, Target |-> EmptyString,
                                                 Err |-> ErrNil, Owners |-> {}, Kept |-> FALSE])
                /\ UNCHANGED pruned
           ELSE \E x \in Exchanges(mode, Fqdn(u.Hostname)) :
                  LET res    == resolveCname(x)
                      owners == IF action = ChangeActionDelete
                                THEN HostnameOwners(live, u.Hostname) ELSE {}
                      keep   == keepRecord(action, u, res, owners)
                  IN  /\ pruned' = IF keep THEN Append(pruned, u) ELSE pruned
                      /\ resolved' = Append(resolved, [InScope |-> TRUE, Target |-> res.Target,
                                                       Err |-> res.Err, Owners |-> owners,
                                                       Kept |-> keep])
                      /\ UNCHANGED metricUpdatesRejected
    /\ pi' = pi + 1
    /\ UNCHANGED <<live, nEvents, handlerQ, updateQueue, stopped, dryRun, rpc, ret, carry,
                   exiting, zoneData, metricUpdatesApplied, lastFlush, lookup>>

\* mockDNSZone.UpsertCnames / DeleteCnames: the zone after a successful call
UpsertCnames(zone, records) ==
    [h \in DOMAIN zone \cup {records[k].Hostname : k \in 1..Len(records)} |->
        IF \E k \in 1..Len(records) : records[k].Hostname = h
        THEN records[CHOOSE k \in 1..Len(records) :
                        /\ records[k].Hostname = h
                        /\ \A m \in k+1..Len(records) : records[m].Hostname # h].Target
        ELSE zone[h]]

DeleteCnames(zone, records) ==
    [h \in DOMAIN zone \ {records[k].Hostname : k \in 1..Len(records)} |-> zone[h]]

\* a counter that is incremented once per call, for its first record
IncAppliedOncePerCall(m, records, op) ==
    IF records = <<>> THEN m
    ELSE LET k == <<Head(records).Hostname, op>>
         IN  [j \in DOMAIN m \cup {k} |-> IF j = k THEN (IF k \in DOMAIN m THEN m[k] ELSE 0) + 1
                                          ELSE m[j]]

\* metricUpdatesApplied.WithLabelValues(p.Hostname, op).Inc() for each p of records
IncApplied(m, records, op) ==
    LET keys == {<<records[k].Hostname, op>> : k \in 1..Len(records)}
    IN  [j \in DOMAIN m \cup keys |->
            (IF j \in DOMAIN m THEN m[j] ELSE 0)
                + Cardinality({k \in 1..Len(records) : <<records[k].Hostname, op>> = j})]

\* an applyBatch that calls the mutator whatever the dryRun flag says
ApplyIgnoringDryRun(outcomes) ==
    /\ rpc = "prune"
    /\ pi > Len(ret)
    /\ LET action == ret[1].Action
           u      == uniqueRecords(pruned)
           sent   == u.Unique
           called == Len(sent) > 0
           op     == IF action = ChangeActionDelete THEN "delete" ELSE "upsert"
       IN  /\ metricUpdatesRejected' = metricUpdatesRejected + Len(u.Rejected)
           /\ \E ok \in (IF called THEN outcomes ELSE {FALSE}) :
                /\ lastFlush' = [Action |-> action,
                                 Batch  |-> ret,
                                 Trace  |-> resolved,
                                 Kept   |-> pruned,
                                 Sent   |-> sent,
                                 Method |-> IF ~called THEN "none"
                                            ELSE IF action = ChangeActionDelete
                                                 THEN "DeleteCnames" ELSE "UpsertCnames",
                                 Called |-> called,
                                 Ok     |-> ok]
                /\ zoneData' = IF ~ok THEN zoneData
                               ELSE IF action = ChangeActionDelete
                                    THEN DeleteCnames(zoneData, sent)
                                    ELSE UpsertCnames(zoneData, sent)
                /\ metricUpdatesApplied' = IF ok THEN IncApplied(metricUpdatesApplied, sent, op)
                                           ELSE metricUpdatesApplied
    /\ ret' = carry
    /\ carry' = <<>>
    /\ rpc' = IF exiting THEN "done" ELSE "select"
    /\ exiting' = FALSE
    /\ pi' = 1
    /\ pruned' = <<>>
    /\ resolved' = <<>>
    /\ UNCHANGED <<live, nEvents, handlerQ, updateQueue, stopped, dryRun, lookup>>

\* the end of pruneBatch (uniqueRecords) and the rest of applyBatch: the mutator
\* call, which succeeds or fails as outcomes allows, then back to the loop
Apply(outcomes) ==
    /\ rpc = "prune"
    /\ pi > Len(ret)
    /\ LET action == ret[1].Action
           u      == uniqueRecords(pruned)
           sent   == u.Unique
           called == Len(sent) > 0 /\ ~dryRun
           op     == IF action = ChangeActionDelete THEN "delete" ELSE "upsert"
       IN  /\ metricUpdatesRejected' = metricUpdatesRejected + Len(u.Rejected)
           /\ \E ok \in (IF called THEN outcomes ELSE {FALSE}) :
                /\ lastFlush' = [Action |-> action,
                                 Batch  |-> ret,
                                 Trace  |-> resolved,
                                 Kept   |-> pruned,
                                 Sent   |-> sent,
                                 Method |-> IF ~called THEN "none"
                                            ELSE IF action = ChangeActionDelete
                                                 THEN "DeleteCnames" ELSE "UpsertCnames",
                                 Called |-> called,
                                 Ok     |-> ok]
                /\ zoneData' = IF ~ok THEN zoneData
                               ELSE IF action = ChangeActionDelete
                                    THEN DeleteCnames(zoneData, sent)
                                    ELSE UpsertCnames(zoneData, sent)
                /\ metricUpdatesApplied' = IF ok THEN IncApplied(metricUpdatesApplied, sent, op)
                                           ELSE metricUpdatesApplied
    /\ ret' = carry
    /\ carry' = <<>>
    /\ rpc' = IF exiting THEN "done" ELSE "select"
    /\ exiting' = FALSE
    /\ pi' = 1
    /\ pruned' = <<>>
    /\ resolved' = <<>>
    /\ UNCHANGED <<live, nEvents, handlerQ, updateQueue, stopped, dryRun, lookup>>

----------------------------------------------------------------------------
(* Specifications *)

\* the watcher delivers any event that is consistent with its snapshot
Deliver ==
    \E i \in Ids :
        \/ \E new \in Ingresses : WatchAdded(i, new)
        \/ \E new \in Ingresses : WatchModified(i, new)
        \/ WatchDeleted(i)

Next ==
    \/ Deliver
    \/ QueueSend
    \/ Stop
    \/ Receive
    \/ StopCase
    \/ Idle
    \/ PruneRecord("flaky")
    \/ Apply(BOOLEAN)

Spec == Init /\ [][Next]_vars

\* --- progress: one ingress that is added, modified and deleted, a resolver that
\* --- reports the zone, a mutator that may fail, and the scheduling Go gives the
\* --- program: the reconciler goroutine runs whenever it can (a ready case of the
\* --- select is taken, pruneBatch and applyBatch return), and a send goes through
\* --- when the queue has room. The watcher is under no obligation to deliver an
\* --- event or to be stopped.

LiveIngresses == {IngPrivAB, IngPubA}

DeliverLive ==
    \E i \in {"A"} :
        \/ \E new \in LiveIngresses : WatchAdded(i, new)
        \/ \E new \in LiveIngresses : WatchModified(i, new)
        \/ WatchDeleted(i)

NextLive ==
    \/ DeliverLive
    \/ QueueSend
    \/ Stop
    \/ Receive
    \/ StopCase
    \/ Idle
    \/ PruneRecord("faithful")
    \/ Apply(BOOLEAN)

Fairness ==
    /\ WF_vars(QueueSend)
    /\ WF_vars(Receive)
    /\ WF_vars(StopCase)
    /\ WF_vars(Idle)
    /\ WF_vars(PruneRecord("faithful"))
    /\ WF_vars(Apply(BOOLEAN))

SpecLive == Init /\ [][NextLive]_vars /\ Fairness


\* --- stop with a full queue: an ingress with one hostname more than the queue holds
\* --- was added while the reconciler slept in its default case, so the handler has
\* --- filled the queue and is blocked on its last send; the stop channel may be closed
\* --- at any moment; the resolver reports the zone and the mutator succeeds

Digits == <<"0", "1", "2", "3", "4", "5", "6", "7", "8", "9">>

\* the k-th of a series of hostnames one label below the apex: 00.e.c, 01.e.c, ...
HostNumber(k) == <<Digits[(k \div 10) + 1], Digits[(k % 10) + 1], Dot, "e", Dot, "c">>

IngWide == [Labels |-> Label(Private), Rules |-> [k \in 1..(QueueCap + 1) |-> HostNumber(k)]]

InitStop ==
    /\ live = [i \in {"A"} |-> IngWide]
    /\ nEvents = 1
    /\ updateQueue = SubSeq(handlerAdded(IngWide), 1, QueueCap)
    /\ handlerQ = SubSeq(handlerAdded(IngWide), QueueCap + 1, Len(handlerAdded(IngWide)))
    /\ zoneData = EmptyMap
    /\ stopped = FALSE
    /\ dryRun = FALSE
    /\ rpc = "select"
    /\ ret = <<>>
    /\ carry = <<>>
    /\ exiting = FALSE
    /\ pi = 1
    /\ pruned = <<>>
    /\ resolved = <<>>
    /\ metricUpdatesRejected = 0
    /\ metricUpdatesApplied = EmptyMap
    /\ lastFlush = NoFlush
    /\ lookup = NoLookup

NextStop ==
    \/ QueueSend
    \/ Stop
    \/ Receive
    \/ StopCase
    \/ Idle
    \/ PruneRecord("faithful")
    \/ Apply({TRUE})

FairnessStop ==
    /\ WF_vars(QueueSend)
    /\ WF_vars(Receive)
    /\ WF_vars(StopCase)
    /\ WF_vars(Idle)
    /\ WF_vars(PruneRecord("faithful"))
    /\ WF_vars(Apply({TRUE}))

SpecStop == InitStop /\ [][NextStop]_vars /\ FairnessStop


\* --- convergence: a reliable mutator, a resolver that reports the zone, hostnames
\* --- within the zone, and no hostname shared by two live ingresses

IngPubB == [Labels |-> Label(Public), Rules |-> <<HostB>>]

ConvIngresses == {IngPrivA, IngPrivAB, IngPubB, IngNoneB}

NoSharedHostname(snapshot) ==
    \A i, j \in DOMAIN snapshot :
        i # j => \A k \in 1..Len(snapshot[i].Rules) :
                    ~stringInSlice(snapshot[i].Rules[k], snapshot[j].Rules)

DeliverConv ==
    \E i \in Ids :
        \/ \E new \in ConvIngresses : WatchAdded(i, new) /\ NoSharedHostname(live')
        \/ \E new \in ConvIngresses : WatchModified(i, new) /\ NoSharedHostname(live')
        \/ WatchDeleted(i)

NextConv ==
    \/ DeliverConv
    \/ QueueSend
    \/ Receive
    \/ Idle
    \/ PruneRecord("faithful")
    \/ Apply({TRUE})

SpecConv == Init /\ [][NextConv]_vars

\* --- one flush: applyBatch entered with a buffer that the batching rule allows

\* records in one flushed buffer
MaxBatch == 3

FlushTargets == {Targets[k] : k \in 1..Len(Targets)}

BatchesOf(hosts, n) ==
    UNION {[1..m -> [Action : {a}, Record : [Hostname : hosts, Target : FlushTargets]]] :
             m \in 1..n, a \in {ChangeActionUpsert, ChangeActionDelete}}

\* the contents a zone may have over the given hostnames
ZonesOver(hosts) == UNION {[present -> FlushTargets] : present \in SUBSET hosts}

InitBatch(batches, snapshots, zones) ==
    /\ live \in snapshots
    /\ ret \in batches
    /\ rpc = "prune"
    /\ nEvents = 0
    /\ handlerQ = <<>>
    /\ updateQueue = <<>>
    /\ stopped = FALSE
    /\ dryRun = FALSE
    /\ carry = <<>>
    /\ exiting = FALSE
    /\ pi = 1
    /\ pruned = <<>>
    /\ resolved = <<>>
    /\ zoneData \in zones
    /\ metricUpdatesRejected = 0
    /\ metricUpdatesApplied = EmptyMap
    /\ lastFlush = NoFlush
    /\ lookup = NoLookup

InitFlush ==
    InitBatch(BatchesOf({HostA, HostBDot, HostDeep}, MaxBatch),
              {EmptyMap, [i \in {"A"} |-> IngPrivA]},
              ZonesOver({HostA, HostBDot}))

NextFlush ==
    \/ PruneRecord("flaky")
    \/ Apply(BOOLEAN)

SpecFlush == InitFlush /\ [][NextFlush]_vars

\* --- the scope check: short buffers over every kind of hostname

MaxScopeBatch == 2

ScopeHosts == {HostA, HostB, HostBDot, HostApex, HostDeep, HostAlien, HostNoDot}

InitScope == InitBatch(BatchesOf(ScopeHosts, MaxScopeBatch), {EmptyMap}, ZonesOver({HostA}))

SpecScope == InitScope /\ [][NextFlush]_vars

\* --- the handler on its own: one live ingress of any kind, any event, and the
\* --- queue as the handler fills it (nothing is received)

IngOtherA   == [Labels |-> Label(Other),   Rules |-> <<HostA>>]
IngPrivNone == [Labels |-> Label(Private), Rules |-> <<>>]

HandlerIngresses == Ingresses \cup {IngPrivA, IngPubB, IngOtherA, IngPrivNone}

InitHandler ==
    /\ live \in [{"A"} -> HandlerIngresses]
    /\ zoneData \in ZonesOver({HostA})
    /\ nEvents = 0
    /\ handlerQ = <<>>
    /\ updateQueue = <<>>
    /\ stopped = FALSE
    /\ dryRun = FALSE
    /\ rpc = "select"
    /\ ret = <<>>
    /\ carry = <<>>
    /\ exiting = FALSE
    /\ pi = 1
    /\ pruned = <<>>
    /\ resolved = <<>>
    /\ metricUpdatesRejected = 0
    /\ metricUpdatesApplied = EmptyMap
    /\ lastFlush = NoFlush
    /\ lookup = NoLookup

DeliverHandler ==
    \E i \in Ids :
        \/ \E new \in HandlerIngresses : WatchAdded(i, new)
        \/ \E new \in HandlerIngresses : WatchModified(i, new)
        \/ WatchDeleted(i)

NextHandler ==
    \/ DeliverHandler
    \/ QueueSend

SpecHandler == InitHandler /\ [][NextHandler]_vars

\* --- resolveCname on its own: any outcome of Exchange at each of up to MaxServers
\* --- nameservers

\* nameservers in one call of resolveCname
MaxServers == 3

\* what one nameserver may do: fail in two ways, answer nothing, answer one CNAME,
\* answer two
ExchangeOutcomes ==
    {ExchangeError,
     [Err |-> ErrTimeout, Answer |-> <<>>],
     ExchangeAnswer(<<>>),
     ExchangeAnswer(<<Public \o <<Dot>>>>),
     ExchangeAnswer(<<Private \o <<Dot>>, Public \o <<Dot>>>>)}

InitResolve ==
    /\ lookup \in {[NoLookup EXCEPT !.Exchanges = x] :
                      x \in UNION {[1..n -> ExchangeOutcomes] : n \in 0..MaxServers}}
    /\ live = EmptyMap
    /\ zoneData = EmptyMap
    /\ nEvents = 0
    /\ handlerQ = <<>>
    /\ updateQueue = <<>>
    /\ stopped = FALSE
    /\ dryRun = FALSE
    /\ rpc = "select"
    /\ ret = <<>>
    /\ carry = <<>>
    /\ exiting = FALSE
    /\ pi = 1
    /\ pruned = <<>>
    /\ resolved = <<>>
    /\ metricUpdatesRejected = 0
    /\ metricUpdatesApplied = EmptyMap
    /\ lastFlush = NoFlush

\* resolveCname(name, nameservers) is called and returns
Resolve ==
    /\ ~lookup.Called
    /\ lookup' = LET r == resolveCname(lookup.Exchanges)
                 IN  [Exchanges |-> lookup.Exchanges, Called |-> TRUE, Target |-> r.Target,
                      Err |-> r.Err, Queried |-> r.Queried]
    /\ UNCHANGED <<live, nEvents, handlerQ, updateQueue, stopped, dryRun, rpc, ret, carry,
                   exiting, pi, pruned, resolved, zoneData, metricUpdatesRejected,
                   metricUpdatesApplied, lastFlush>>

SpecResolve == InitResolve /\ [][Resolve]_vars

\* --- dry run: the program started with or without the dryRun flag, two ingresses
\* --- that share a hostname or lie outside the zone, a resolver that reports the
\* --- zone and a mutator that succeeds when it is called

IngPubDeep == [Labels |-> Label(Public), Rules |-> <<HostDeep>>]

DryIngresses == {IngPubA, IngPrivAB, IngPubDeep}

InitDry ==
    /\ dryRun \in BOOLEAN
    /\ live = EmptyMap
    /\ zoneData = EmptyMap
    /\ nEvents = 0
    /\ handlerQ = <<>>
    /\ updateQueue = <<>>
    /\ stopped = FALSE
    /\ rpc = "select"
    /\ ret = <<>>
    /\ carry = <<>>
    /\ exiting = FALSE
    /\ pi = 1
    /\ pruned = <<>>
    /\ resolved = <<>>
    /\ metricUpdatesRejected = 0
    /\ metricUpdatesApplied = EmptyMap
    /\ lastFlush = NoFlush
    /\ lookup = NoLookup

DeliverDry ==
    \E i \in Ids :
        \/ \E new \in DryIngresses : WatchAdded(i, new)
        \/ \E new \in DryIngresses : WatchModified(i, new)
        \/ WatchDeleted(i)

NextDry ==
    \/ DeliverDry
    \/ QueueSend
    \/ Stop
    \/ Receive
    \/ StopCase
    \/ Idle
    \/ PruneRecord("faithful")
    \/ Apply({TRUE})

SpecDry == InitDry /\ [][NextDry]_vars


----------------------------------------------------------------------------
(* Claims *)

Homogeneous(changes) ==
    \A i, j \in 1..Len(changes) : changes[i].Action = changes[j].Action

RecordsOf(changes) == {changes[k].Record : k \in 1..Len(changes)}

SetOf(seq) == {seq[k] : k \in 1..Len(seq)}

\* C1  Batch homogeneity: the buffer of processUpdateQueue never holds both an UPSERT
\* and a DELETE; every mutator call carries only records of the flushed changes, all
\* of one action, and DeleteCnames is called exactly for DELETE changes, UpsertCnames
\* exactly for UPSERT changes.
BatchHomogeneity ==
    /\ Homogeneous(ret)
    /\ lastFlush.Called =>
          /\ Homogeneous(lastFlush.Batch)
          /\ SetOf(lastFlush.Sent) \subseteq RecordsOf(lastFlush.Batch)
          /\ lastFlush.Method = "DeleteCnames" =>
                \A k \in 1..Len(lastFlush.Batch) : lastFlush.Batch[k].Action = ChangeActionDelete
          /\ lastFlush.Method = "UpsertCnames" =>
                \A k \in 1..Len(lastFlush.Batch) : lastFlush.Batch[k].Action = ChangeActionUpsert
          /\ lastFlush.Method \in {"DeleteCnames", "UpsertCnames"}

\* C1 witness: a mutator call for a buffer of two changes has just been made at an
\* action boundary: the buffer now holds the arrival of the other action.
BatchHomogeneityWitness ==
    /\ lastFlush.Called
    /\ Len(lastFlush.Batch) >= 2
    /\ ret # <<>>
    /\ ret[1].Action # lastFlush.Action

\* C2  Ownership safety, as claimed: at the moment DeleteCnames is called, no live
\* ingress of the ownership index lists any hostname of the call.
OwnershipSafetyAtCall ==
    [][(lastFlush' # lastFlush /\ lastFlush'.Method = "DeleteCnames") =>
          \A k \in 1..Len(lastFlush'.Sent) :
              HostnameOwners(live', lastFlush'.Sent[k].Hostname) = {}]_vars


\* the first target, in configured order, whose selector matches; none: the empty target
MatchingTargets(ingress) ==
    {k \in 1..Len(Targets) :
        /\ TargetLabelName \in DOMAIN ingress.Labels
        /\ ingress.Labels[TargetLabelName] = Targets[k]}

SelectedTarget(ingress) ==
    IF MatchingTargets(ingress) = {} THEN EmptyString
    ELSE Targets[CHOOSE k \in MatchingTargets(ingress) : \A m \in MatchingTargets(ingress) : k <= m]

ChangesWith(changes, action) == {changes[k] : k \in {m \in 1..Len(changes) : changes[m].Action = action}}

\* C8  Target selection: every change the handler sends for an event carries the
\* first configured target whose selector matches the ingress it was derived from
\* (the new ingress for an UPSERT, the old one for a DELETE), and the handler sends
\* nothing that is derived from an ingress no selector matches.
TargetSelection ==
    [][nEvents' = nEvents + 1 =>
          /\ \A c \in ChangesWith(handlerQ', ChangeActionUpsert) :
                \E i \in DOMAIN live' :
                    /\ SelectedTarget(live'[i]) # EmptyString
                    /\ c.Record.Target = SelectedTarget(live'[i])
                    /\ stringInSlice(c.Record.Hostname, live'[i].Rules)
          /\ \A c \in ChangesWith(handlerQ', ChangeActionDelete) :
                \E i \in DOMAIN live :
                    /\ SelectedTarget(live[i]) # EmptyString
                    /\ c.Record.Target = SelectedTarget(live[i])
                    /\ stringInSlice(c.Record.Hostname, live[i].Rules)
          /\ \A i \in Ids :
                /\ (i \notin DOMAIN live /\ i \in DOMAIN live'
                      /\ SelectedTarget(live'[i]) = EmptyString) => handlerQ' = <<>>
                /\ (i \in DOMAIN live /\ i \notin DOMAIN live'
                      /\ SelectedTarget(live[i]) = EmptyString) => handlerQ' = <<>>
                /\ (i \in DOMAIN live /\ i \in DOMAIN live' /\ live'[i] # live[i]
                      /\ SelectedTarget(live'[i]) = EmptyString) =>
                         ChangesWith(handlerQ', ChangeActionUpsert) = {}
                /\ (i \in DOMAIN live /\ i \in DOMAIN live' /\ live'[i] # live[i]
                      /\ SelectedTarget(live[i]) = EmptyString) =>
                         ChangesWith(handlerQ', ChangeActionDelete) = {}]_vars

\* C8 witness: the handler has handled two events, one for an ingress no selector
\* matches, which is live and for which nothing was sent, and one for an ingress
\* with a target, whose changes are being sent.
TargetSelectionWitness ==
    /\ nEvents = 2
    /\ \E i \in DOMAIN live : SelectedTarget(live[i]) = EmptyString
    /\ \E i \in DOMAIN live : SelectedTarget(live[i]) = Private
    /\ \E k \in 1..Len(handlerQ) : handlerQ[k].Record.Target = Private
    /\ \A k \in 1..Len(updateQueue) : updateQueue[k].Record.Target # EmptyString

\* C10  Resync reattempt, as claimed: when UpsertCnames has just failed for records of
\* a live ingress, the resync event of that ingress (MODIFIED with old = new) makes
\* the handler send the dropped changes again.
ResyncReattempt ==
    [][\A i \in Ids :
          (/\ i \in DOMAIN live
           /\ lastFlush.Method = "UpsertCnames"
           /\ ~lastFlush.Ok
           /\ WatchModified(i, live[i]))
          => \A k \in 1..Len(lastFlush.Sent) :
                (/\ stringInSlice(lastFlush.Sent[k].Hostname, getHostnamesFromIngress(live[i]))
                 /\ lastFlush.Sent[k].Target = getTargetForIngress(live[i]))
                => \E m \in 1..Len(handlerQ') :
                      handlerQ'[m] = [Action |-> ChangeActionUpsert, Record |-> lastFlush.Sent[k]]]_vars


\* every event handled and every change processed
Quiescent == handlerQ = <<>> /\ updateQueue = <<>> /\ ret = <<>> /\ rpc = "select"

\* the zone holds h -> target for every hostname of every live ingress with a target
ZoneHoldsLive ==
    \A i \in DOMAIN live :
        SelectedTarget(live[i]) # EmptyString =>
            \A h \in SetOf(getHostnamesFromIngress(live[i])) :
                h \in DOMAIN zoneData /\ zoneData[h] = SelectedTarget(live[i])

\* the zone holds no record for a hostname that no live ingress lists
ZoneHoldsNoOrphan ==
    \A h \in DOMAIN zoneData : HostnameOwners(live, h) # {}

\* C9  Convergence, as claimed: once every event is handled and every change is
\* processed, the zone holds the records of the live ingresses, hostnames added by a
\* MODIFIED event included, and no record that no live ingress lists.
Convergence == Quiescent => (ZoneHoldsLive /\ ZoneHoldsNoOrphan)


Flushed == lastFlush.Action # "none"

SentHostnames == {lastFlush.Sent[k].Hostname : k \in 1..Len(lastFlush.Sent)}

\* hostnames that two records of the sequence give differing targets
ConflictingHostnames(records) ==
    {records[i].Hostname : i \in {m \in 1..Len(records) :
        \E j \in 1..Len(records) :
            records[j].Hostname = records[m].Hostname /\ records[j].Target # records[m].Target}}

BatchRecords == [k \in 1..Len(lastFlush.Batch) |-> lastFlush.Batch[k].Record]

\* C3  Conflict rejection, as claimed: when two records of a flushed batch share a
\* hostname and differ in target, no record of that hostname is in the mutator call,
\* whatever the zone holds and the resolver answers.
ConflictRejection ==
    Flushed => ConflictingHostnames(BatchRecords) \cap SentHostnames = {}

\* the step that ends pruneBatch with uniqueRecords
DedupStep == rpc = "prune" /\ pi > Len(ret) /\ rpc' # "prune"

\* C4  Conflict rejection count: the dedup step adds to the rejection counter the
\* number of records it rejects, 2 when two records claim one hostname with differing
\* targets. (uniqueRecords adds the number of rejected hostnames, so this is violated.)
RejectionCountsRecords ==
    [][DedupStep =>
          metricUpdatesRejected' - metricUpdatesRejected =
             Cardinality({k \in 1..Len(pruned) :
                             pruned[k].Hostname \in ConflictingHostnames(pruned)})]_vars


\* exactly one label directly below the zone apex, trailing dots ignored
OneLabelBelowApex(hostname) ==
    LET zone == TrimRight(Domain, Dot)
        name == TrimRight(hostname, Dot)
        n    == Len(name) - Len(zone) - 1
    IN  /\ n >= 1
        /\ SubSeq(name, n + 2, Len(name)) = zone
        /\ name[n + 1] = Dot
        /\ \A k \in 1..n : name[k] # Dot

OutOfScope(records) == {k \in 1..Len(records) : ~OneLabelBelowApex(records[k].Hostname)}

\* C5  Scope containment: pruneBatch keeps, and the mutator receives, only hostnames
\* that are exactly one label below the zone apex; every other record of the buffer
\* (the apex, a name of another zone, a name two labels below) is rejected by the
\* loop of pruneBatch, which adds 1 to the rejection counter for each.
ScopeContainment ==
    /\ \A k \in 1..Len(pruned) : OneLabelBelowApex(pruned[k].Hostname)
    /\ rpc = "prune" =>
          metricUpdatesRejected =
             Cardinality(OutOfScope([k \in 1..(pi - 1) |-> ret[k].Record]))
    /\ Flushed =>
          /\ \A h \in SentHostnames : OneLabelBelowApex(h)
          /\ metricUpdatesRejected =
                Cardinality(OutOfScope(BatchRecords))
                  + Cardinality(ConflictingHostnames(lastFlush.Kept))

\* C5 witness: a flush of two records, one of which was sent to the mutator while the
\* other, two labels below the apex, was rejected and counted once.
ScopeContainmentWitness ==
    /\ lastFlush.Called
    /\ Len(lastFlush.Batch) = 2
    /\ \E k \in 1..2 : lastFlush.Batch[k].Record.Hostname = HostDeep
    /\ Len(lastFlush.Sent) = 1
    /\ metricUpdatesRejected = 1

\* what pruneBatch observed for change i of the flushed batch shows that the zone
\* already matches: the CNAME is the record's target, or the name is absent and unowned
NoOpObserved(i) ==
    LET t == lastFlush.Trace[i]
        u == BatchRecords[i]
    IN  /\ t.InScope
        /\ IF lastFlush.Action = ChangeActionUpsert
           THEN t.Err = ErrNil /\ TrimRight(t.Target, Dot) = u.Target
           ELSE t.Owners = {} /\ t.Err = errDNSEmptyAnswer

\* C6  No-op suppression: a change observed as already matching the zone is dropped by
\* pruneBatch, and its record is in the mutator call only if another change of the
\* batch carries the same record and was not observed as matching.
NoOpSuppression ==
    Flushed =>
       \A i \in 1..Len(lastFlush.Batch) :
          NoOpObserved(i) =>
             /\ ~lastFlush.Trace[i].Kept
             /\ BatchRecords[i] \in SetOf(lastFlush.Sent) =>
                   \E j \in 1..Len(lastFlush.Batch) :
                       BatchRecords[j] = BatchRecords[i] /\ ~NoOpObserved(j)

\* C6 witness: UpsertCnames was called for a batch one change of which resolved to its
\* own target and is not in the call.
NoOpSuppressionWitness ==
    /\ lastFlush.Method = "UpsertCnames"
    /\ \E i \in 1..Len(lastFlush.Batch) :
          NoOpObserved(i) /\ BatchRecords[i] \notin SetOf(lastFlush.Sent)

Count(seq, x) == Cardinality({k \in 1..Len(seq) : seq[k] = x})

FirstIndex(seq, x) == CHOOSE k \in 1..Len(seq) : seq[k] = x /\ \A m \in 1..(k - 1) : seq[m] # x

InFirstOccurrenceOrder(sub, seq) ==
    /\ \A k \in 1..Len(sub) : sub[k] \in SetOf(seq)
    /\ \A k, l \in 1..Len(sub) : k < l => FirstIndex(seq, sub[k]) < FirstIndex(seq, sub[l])

\* C7  Dedup correctness, as claimed: of two identical records of a flushed batch
\* exactly one is in the mutator call, and the records of the call are in the order
\* of their first occurrences.
DedupExactlyOne ==
    lastFlush.Called =>
       /\ \A i, j \in 1..Len(BatchRecords) :
             (i < j /\ BatchRecords[i] = BatchRecords[j]) =>
                 Count(lastFlush.Sent, BatchRecords[i]) = 1
       /\ InFirstOccurrenceOrder(lastFlush.Sent, BatchRecords)

\* C7 amended: of two identical records of a flushed batch at most one is in the
\* mutator call: exactly one when the record passed the per-record filter and no
\* record that passed it gives the hostname another target, none otherwise; the
\* records of the call are in the order of their first occurrences among the records
\* that passed the per-record filter.
DedupAtMostOne ==
    Flushed =>
       /\ \A i, j \in 1..Len(BatchRecords) :
             (i < j /\ BatchRecords[i] = BatchRecords[j]) =>
                 LET r == BatchRecords[i]
                 IN  Count(lastFlush.Sent, r) =
                        IF /\ r \in SetOf(lastFlush.Kept)
                           /\ r.Hostname \notin ConflictingHostnames(lastFlush.Kept)
                        THEN 1 ELSE 0
       /\ InFirstOccurrenceOrder(lastFlush.Sent, lastFlush.Kept)

\* C7 witness: a mutator call of two records for a batch that held one of them twice.
DedupWitness ==
    /\ lastFlush.Called
    /\ Len(lastFlush.Sent) = 2
    /\ \E i, j \in 1..Len(BatchRecords) :
          i < j /\ BatchRecords[i] = BatchRecords[j] /\ BatchRecords[i] = lastFlush.Sent[2]

\* the steps of the watcher, told apart by what they do to the snapshot
AddedStep(i)    == nEvents' = nEvents + 1 /\ i \notin DOMAIN live /\ i \in DOMAIN live'
DeletedStep(i)  == nEvents' = nEvents + 1 /\ i \in DOMAIN live /\ i \notin DOMAIN live'
ModifiedStep(i) ==
    /\ nEvents' = nEvents + 1
    /\ DOMAIN live' = DOMAIN live
    /\ i \in DOMAIN live
    /\ \A j \in DOMAIN live \ {i} : live'[j] = live[j]

HostSet(ingress) == SetOf(ingress.Rules)

\* no hostname is removed and the value of the target label is the same
GuardCase(old, new) ==
    /\ HostSet(old) \ HostSet(new) = {}
    /\ LabelValue(old.Labels, TargetLabelName) = LabelValue(new.Labels, TargetLabelName)

\* C11  Resync no-op guard: a MODIFIED event whose new ingress equals the old one, or
\* more generally removes no hostname and keeps the value of the target label, makes
\* the handler send nothing and leaves the queue as it is, whatever the zone holds.
ResyncNoOpGuard ==
    [][\A i \in Ids :
          (ModifiedStep(i) /\ GuardCase(live[i], live'[i]))
          => (handlerQ' = <<>> /\ updateQueue' = updateQueue)]_vars

\* C11 witness: the one event so far was a MODIFIED of the only ingress, which now
\* has a target and two hostnames; nothing was sent, and the zone is not empty.
ResyncNoOpGuardWitness ==
    /\ nEvents = 1
    /\ DOMAIN live = {"A"}
    /\ live["A"] = IngPrivAB
    /\ handlerQ = <<>>
    /\ updateQueue = <<>>
    /\ zoneData # EmptyMap

\* the hosts of the rules, each at its first occurrence
FirstOccurrences(rules) ==
    LET idx == SelectSeq([k \in 1..Len(rules) |-> k],
                         LAMBDA k : \A m \in 1..(k - 1) : rules[m] # rules[k])
    IN  [k \in 1..Len(idx) |-> rules[idx[k]]]

ChangesFor(action, hostnames, target) ==
    IF target = EmptyString \/ hostnames = <<>> THEN <<>>
    ELSE [k \in 1..Len(hostnames) |->
             [Action |-> action, Record |-> [Hostname |-> hostnames[k], Target |-> target]]]

\* C15  ADDED / DELETED handling: on ADDED the handler sends exactly one UPSERT per
\* hostname of the new ingress, de-duplicated and in rule order, with the target
\* selected for the new ingress; on DELETED exactly one DELETE per hostname of the old
\* ingress with the target selected for the old one; nothing when the target or the
\* hostname list is empty.
AddedDeletedHandling ==
    [][\A i \in Ids :
          /\ AddedStep(i) =>
                handlerQ' = ChangesFor(ChangeActionUpsert, FirstOccurrences(live'[i].Rules),
                                       SelectedTarget(live'[i]))
          /\ DeletedStep(i) =>
                handlerQ' = ChangesFor(ChangeActionDelete, FirstOccurrences(live[i].Rules),
                                       SelectedTarget(live[i]))]_vars

\* C15 witness: beside an untouched ingress, an ingress with the rules a, b, a was
\* added, its two UPSERTs are in the queue, and it was deleted again: the handler is
\* sending its two DELETEs.
AddedDeletedHandlingWitness ==
    /\ nEvents = 2
    /\ DOMAIN live = {"A"}
    /\ live["A"] = IngPubA
    /\ updateQueue = ChangesFor(ChangeActionUpsert, <<HostA, HostB>>, Private)
    /\ handlerQ = ChangesFor(ChangeActionDelete, <<HostA, HostB>>, Private)

\* C16  MODIFIED handling when the no-op guard does not fire: the handler sends an
\* UPSERT with the new target for every hostname of the new ingress iff the new target
\* and the new hostnames are non-empty, then a DELETE with the old target for every
\* hostname of the old ingress that the new one lacks iff the old target and the
\* removed hostnames are non-empty; a change of the label value alone gives UPSERTs
\* with the new target and no DELETE.
ModifiedHandling ==
    [][\A i \in Ids :
          (ModifiedStep(i) /\ ~GuardCase(live[i], live'[i])) =>
             LET removed == SelectSeq(FirstOccurrences(live[i].Rules),
                                      LAMBDA h : h \notin HostSet(live'[i]))
             IN  handlerQ' =
                    ChangesFor(ChangeActionUpsert, FirstOccurrences(live'[i].Rules),
                               SelectedTarget(live'[i]))
                    \o ChangesFor(ChangeActionDelete, removed, SelectedTarget(live[i]))]_vars

\* C16 witness: the one event so far was a MODIFIED of the only ingress that moved it
\* from private with a and b to public with b: the handler is sending the UPSERT of b
\* to public, then the DELETE of a from private.
ModifiedHandlingWitness ==
    /\ nEvents = 1
    /\ DOMAIN live = {"A"}
    /\ live["A"] = IngPubB
    /\ handlerQ = ChangesFor(ChangeActionUpsert, <<HostB>>, Public)
                    \o ChangesFor(ChangeActionDelete, <<HostA>>, Private)

\* the changes on their way, oldest first: the buffer being collected or flushed, the
\* arrival that waits for the flush to end, the queue, and what the handler has
\* still to send
Pipeline == ret \o carry \o updateQueue \o handlerQ

RECURSIVE IsSubsequence(_, _)
IsSubsequence(sub, seq) ==
    IF sub = <<>> THEN TRUE
    ELSE IF seq = <<>> THEN FALSE
    ELSE IF Head(sub) = Head(seq) THEN IsSubsequence(Tail(sub), Tail(seq))
    ELSE IsSubsequence(sub, Tail(seq))

\* C12  Ordering: the changes on their way form one first-in first-out sequence. A
\* step leaves it as it is, or the handler appends the changes of an event at its end,
\* or a flush removes its front: the front is of one action, the mutator call is made
\* of records of the front in the order of their changes, and every change that stays
\* was enqueued later. So the mutator calls follow the enqueue order, and a DELETE
\* never reaches the mutator before an UPSERT enqueued earlier, nor the reverse.
Ordering ==
    [][\/ Pipeline' = Pipeline
       \/ /\ nEvents' = nEvents + 1
          /\ handlerQ = <<>>
          /\ Pipeline' = Pipeline \o handlerQ'
       \/ /\ rpc = "prune" /\ rpc' # "prune"
          /\ Pipeline = ret \o Pipeline'
          /\ Homogeneous(ret)
          /\ lastFlush'.Batch = ret
          /\ IsSubsequence(lastFlush'.Sent, [k \in 1..Len(ret) |-> ret[k].Record])
          /\ lastFlush'.Called =>
                lastFlush'.Method = (IF ret[1].Action = ChangeActionDelete
                                     THEN "DeleteCnames" ELSE "UpsertCnames")]_vars

\* C12 witness: UpsertCnames has just been called with a hostname whose DELETE, sent
\* later by the handler, is now alone in the buffer, and a further change waits in
\* the queue.
OrderingWitness ==
    /\ lastFlush.Method = "UpsertCnames"
    /\ Len(ret) = 1
    /\ ret[1].Action = ChangeActionDelete
    /\ ret[1].Record \in SetOf(lastFlush.Sent)
    /\ updateQueue # <<>>

\* some live ingress lists the hostname
Owned(hostname) == \E j \in DOMAIN live : hostname \in HostSet(live[j])

\* C17  Prune under resolver errors: for an in-scope record, a resolver error other
\* than EMPTY_ANSWER keeps an UPSERT, and keeps a DELETE unless a live ingress still
\* owns the hostname; EMPTY_ANSWER keeps an UPSERT and drops a DELETE; a DELETE whose
\* hostname has an owner is dropped whatever the resolver returns. The records kept
\* are the input of the dedup step, in order.
PruneUnderResolverErrors ==
    Flushed =>
       /\ \A i \in 1..Len(lastFlush.Batch) :
             LET t == lastFlush.Trace[i]
                 h == BatchRecords[i].Hostname
             IN  t.InScope =>
                    /\ (lastFlush.Action = ChangeActionUpsert /\ t.Err # ErrNil) => t.Kept
                    /\ (lastFlush.Action = ChangeActionDelete /\ Owned(h)) => ~t.Kept
                    /\ (lastFlush.Action = ChangeActionDelete /\ ~Owned(h)
                          /\ t.Err \notin {ErrNil, errDNSEmptyAnswer}) => t.Kept
                    /\ (lastFlush.Action = ChangeActionDelete
                          /\ t.Err = errDNSEmptyAnswer) => ~t.Kept
       /\ lastFlush.Kept =
             LET idx == SelectSeq([k \in 1..Len(lastFlush.Batch) |-> k],
                                  LAMBDA k : lastFlush.Trace[k].Kept)
             IN  [k \in 1..Len(idx) |-> BatchRecords[idx[k]]]

\* C17 witness: DeleteCnames was called for a batch two records of which met a
\* resolver error: one unowned, which was kept and sent, one owned, which was dropped.
PruneUnderResolverErrorsWitness ==
    /\ lastFlush.Method = "DeleteCnames"
    /\ \E i, j \in 1..Len(lastFlush.Batch) :
          /\ lastFlush.Trace[i].Err = ErrExchange
          /\ lastFlush.Trace[i].Kept
          /\ BatchRecords[i] \in SetOf(lastFlush.Sent)
          /\ lastFlush.Trace[j].InScope
          /\ lastFlush.Trace[j].Err = ErrExchange
          /\ Owned(BatchRecords[j].Hostname)
          /\ ~lastFlush.Trace[j].Kept

\* the nameservers that answer with at least one record
Answering(x) == {i \in 1..Len(x) : x[i].Err = ErrNil /\ Len(x[i].Answer) >= 1}

\* C19  Resolver fall-through: resolveCname queries the nameservers in list order and
\* returns, with no error, the first record of the first server that answers with at
\* least one, without querying a later server; if none answers it has queried all and
\* returns the error of the last one: EMPTY_ANSWER if that server answered with no
\* record, its transport error otherwise.
ResolverFallThrough ==
    (lookup.Called /\ Len(lookup.Exchanges) >= 1) =>
       LET x == lookup.Exchanges
       IN  IF Answering(x) # {}
           THEN LET f == CHOOSE i \in Answering(x) : \A j \in Answering(x) : i <= j
                IN  /\ lookup.Target = x[f].Answer[1]
                    /\ lookup.Err = ErrNil
                    /\ lookup.Queried = f
           ELSE /\ lookup.Queried = Len(x)
                /\ lookup.Err = IF x[Len(x)].Err = ErrNil THEN errDNSEmptyAnswer
                                ELSE x[Len(x)].Err

\* C19 witness: of three nameservers the first failed, the second answered, and the
\* third, which holds another record, was not queried.
ResolverFallThroughWitness ==
    /\ lookup.Called
    /\ Len(lookup.Exchanges) = 3
    /\ lookup.Exchanges[1].Err = ErrTimeout
    /\ lookup.Exchanges[2] = ExchangeAnswer(<<Public \o <<Dot>>>>)
    /\ lookup.Exchanges[3] = ExchangeAnswer(<<Private \o <<Dot>>, Public \o <<Dot>>>>)
    /\ lookup.Queried = 2
    /\ lookup.Target = Public \o <<Dot>>

\* the watcher has delivered its last event, the handler has sent every change of it,
\* and no stop was signalled yet: nothing is enqueued from here on
AllEnqueuedBeforeStop == ~stopped /\ handlerQ = <<>> /\ nEvents = MaxEvents

\* C13  Stop drains, as claimed: when every change was enqueued before the stop
\* signal, the reconciler has exited only with the queue and the buffer empty, every
\* change having gone through a flush.
StopDrains ==
    [](AllEnqueuedBeforeStop => [](rpc = "done" => (updateQueue = <<>> /\ ret = <<>>)))

\* Start() has returned: processUpdateQueue has returned and the watcher has drained,
\* its handler having returned from its last send
StartReturned == rpc = "done" /\ handlerQ = <<>>

\* C14  Termination, as claimed: once the stop channel is closed, Start() eventually
\* returns, whatever the queue holds at the moment of the stop.
Termination == stopped ~> StartReturned

\* C18  Idle flush liveness: a non-empty buffer is eventually flushed, with no
\* obligation on the watcher to deliver a further event or a stop: the loop enters
\* applyBatch, applyBatch returns, and after a flush taken at the default case or at
\* the stop case the buffer is empty.
IdleFlushLiveness ==
    /\ (rpc = "select" /\ ret # <<>>) ~> (rpc = "prune")
    /\ (rpc = "prune") ~> (rpc # "prune" /\ Flushed)
    /\ [][(rpc = "prune" /\ rpc' # "prune" /\ carry = <<>>) =>
             (ret' = <<>> /\ lastFlush'.Batch = ret)]_vars

\* C18 witness: a buffer of two changes was flushed at the default case: the loop is
\* back at the select with an empty buffer, and no stop was signalled.
IdleFlushLivenessWitness ==
    /\ Flushed
    /\ Len(lastFlush.Batch) >= 2
    /\ rpc = "select"
    /\ ret = <<>>
    /\ ~stopped

\* the mutator call of the applyBatch that has just returned failed
MutatorFailed == lastFlush.Called /\ ~lastFlush.Ok

AppliedCount(m, hostname, op) == IF <<hostname, op>> \in DOMAIN m THEN m[<<hostname, op>>] ELSE 0

\* C20  Mutator failure is absorbed: when the mutator call fails the applied counter
\* is left as it is and the loop goes on (it ends only if the flush was the one of
\* the stop case), and a change that waits in the queue is then taken into a further
\* flush; when the call succeeds the counter of each hostname, under the operation of
\* the batch, grows by the number of records of the call with that hostname; without a
\* call the counter is left as it is.
MutatorFailureAbsorbed ==
    /\ [][(rpc = "prune" /\ rpc' # "prune") =>
             /\ (lastFlush'.Called /\ ~lastFlush'.Ok) =>
                   /\ metricUpdatesApplied' = metricUpdatesApplied
                   /\ rpc' = (IF exiting THEN "done" ELSE "select")
             /\ ~lastFlush'.Called => metricUpdatesApplied' = metricUpdatesApplied
             /\ (lastFlush'.Called /\ lastFlush'.Ok) =>
                   \A h \in {HostA, HostB}, op \in {"upsert", "delete"} :
                       AppliedCount(metricUpdatesApplied', h, op)
                         - AppliedCount(metricUpdatesApplied, h, op)
                       = IF op = (IF lastFlush'.Action = ChangeActionDelete
                                  THEN "delete" ELSE "upsert")
                         THEN Count([k \in 1..Len(lastFlush'.Sent) |->
                                        lastFlush'.Sent[k].Hostname], h)
                         ELSE 0]_vars
    /\ (MutatorFailed /\ rpc = "select" /\ updateQueue # <<>>) ~> (stopped \/ rpc = "prune")

\* C20 witness: a call of two records has failed, no counter has moved, the loop is
\* at its select and a change waits in the queue.
MutatorFailureAbsorbedWitness ==
    /\ MutatorFailed
    /\ Len(lastFlush.Sent) = 2
    /\ metricUpdatesApplied = EmptyMap
    /\ rpc = "select"
    /\ ~stopped
    /\ updateQueue # <<>>

\* C21  Dry-run: with the dryRun flag set, no flush calls UpsertCnames or
\* DeleteCnames, the applied counter and the zone stay as they were at start, and each
\* flush still runs the prune stage: every record of the buffer is looked at, a record
\* outside the zone adds 1 to the rejection counter, and the dedup step adds the
\* hostnames it rejects.
DryRun ==
    /\ [](dryRun =>
            /\ ~lastFlush.Called
            /\ lastFlush.Method = "none"
            /\ metricUpdatesApplied = EmptyMap
            /\ zoneData = EmptyMap
            /\ Flushed => Len(lastFlush.Trace) = Len(lastFlush.Batch))
    /\ [][(dryRun /\ rpc = "prune") =>
             /\ pi' = pi + 1 =>
                   /\ Len(resolved') = Len(resolved) + 1
                   /\ metricUpdatesRejected' - metricUpdatesRejected =
                         IF OneLabelBelowApex(ret[pi].Record.Hostname) THEN 0 ELSE 1
             /\ rpc' # "prune" =>
                   /\ metricUpdatesRejected' - metricUpdatesRejected =
                         Cardinality(ConflictingHostnames(pruned))
                   /\ lastFlush'.Kept = pruned
                   /\ SetOf(lastFlush'.Sent) =
                         {r \in SetOf(pruned) :
                             r.Hostname \notin ConflictingHostnames(pruned)}]_vars

\* C21 witness: under dry run a flush has pruned a buffer in which two ingresses claim
\* one hostname with two targets: the hostname was rejected and counted, another
\* record was ready to be sent, and no mutator call was made.
DryRunWitness ==
    /\ dryRun
    /\ Flushed
    /\ ConflictingHostnames(lastFlush.Kept) # {}
    /\ lastFlush.Sent # <<>>
    /\ metricUpdatesRejected >= 1
    /\ ~lastFlush.Called

\* C22  resolveCname returns a nil error only if some nameserver of the list returned
\* at least one answer; with an empty list it reports an error, never a successful
\* resolution with an empty target that pruneBatch would read as "the record is there".
\* (resolveCname starts from retError = nil and the loop body never runs on an empty
\* list, so this is violated.)
ResolverNilOnlyOnAnswer ==
    (lookup.Called /\ lookup.Err = ErrNil) => Answering(lookup.Exchanges) # {}

\* C23  A DELETE is never lost to conflict rejection: when a flushed DELETE batch holds
\* a record for a hostname of the zone that no live ingress owns and that resolves,
\* the hostname is in the list handed to DeleteCnames, also when the DELETE records
\* of that hostname carry different targets. (uniqueRecords rejects the hostname in
\* that case, whatever the action of the batch, so this is violated.)
DeleteNotLost ==
    (Flushed /\ lastFlush.Action = ChangeActionDelete) =>
        \A k \in 1..Len(lastFlush.Batch) :
            LET t == lastFlush.Trace[k]
            IN  (t.InScope /\ t.Owners = {} /\ t.Err = ErrNil) =>
                    lastFlush.Batch[k].Record.Hostname \in SentHostnames

\* the records of positions lo..hi of the flushed batch that the prune loop kept, in
\* order: what pruneBatch hands to uniqueRecords when an idle flush cuts the batch there
KeptBetween(lo, hi) ==
    LET positions == SelectSeq([i \in 1..(hi - lo + 1) |-> lo + i - 1],
                               LAMBDA i : lastFlush.Trace[i].Kept)
    IN  [i \in 1..Len(positions) |-> lastFlush.Batch[positions[i]].Record]

\* the records that reach the mutator when the flushed batch is cut after position k
\* into two batches, with the ownership index and the resolver answers of the flush
SentWhenSplitAt(k) ==
    SetOf(uniqueRecords(KeptBetween(1, k)).Unique)
        \cup SetOf(uniqueRecords(KeptBetween(k + 1, Len(lastFlush.Batch))).Unique)

\* C24  The outcome does not depend on batch boundaries: for one run of same-action
\* changes, one ownership index and the same resolver answers, the set of records that
\* reach the mutator is the same whether the run is flushed as one batch or an idle
\* flush cuts it in two; two UPSERTs of one hostname with different targets are
\* rejected either way. (uniqueRecords only sees the records of one batch, so the two
\* UPSERTs both reach the mutator when they are cut apart: this is violated.)
BatchBoundaryIndependence ==
    Flushed =>
        \A k \in 1..(Len(lastFlush.Batch) - 1) :
            SetOf(lastFlush.Sent) = SentWhenSplitAt(k)

====
